---- MODULE Spec2Model ----
(***************************************************************************)
(* A model of the vertex layer of the fusion framework: src/src/vertex.rs  *)
(* (Vertex, LocalVertex, RemoteVertex and the RPC in remote_execute) and   *)
(* src/src/udf.rs (the GraphSum user-defined function).                    *)
(*                                                                         *)
(* One machine (the local one) is modelled step by step.  The peers, the   *)
(* inbound reader and the graph registry are collaborators whose code is   *)
(* not part of vertex.rs / udf.rs; they are modelled from the written      *)
(* specification.                                                          *)
(***************************************************************************)
EXTENDS Integers, Sequences, FiniteSets, TLC

(***************************************************************************)
(* Bounds of the model.                                                    *)
(***************************************************************************)
MaxVertex == 3      \* vertex ids are 1..MaxVertex
MaxCalls == 2       \* concurrent top-level apply_function calls
NumPeers == 2       \* remote machines are 1..NumPeers
MaxVal == 2         \* payloads and written values range over 1..MaxVal

VertexIDs == 1..MaxVertex
MachineIDs == 1..NumPeers
Values == 1..MaxVal

VARIABLES
    graph,          \* Graph: VertexID -> Vertex, the registry of this machine
    graph0,         \* the registry as it was built (never changes)
    all_local,      \* the same topology and payloads with every vertex Local
    last,           \* outcome of the last vertex operation
    frames,         \* the apply_function invocations of this machine
    calls,          \* top-level calls still to be issued: <<[vertex, aux], ...>>
    minted,         \* the RequestIDs generated so far
    result_multiplexing_channels,  \* pending table: RequestID -> sender half
    table_lock,     \* holder of the RwLock of the pending table ("" = free)
    streams_readers,\* frames holding the read lock of rpc_sending_streams
    stream_lock,    \* per peer: the frame holding the send stream's Mutex
    wire,           \* per peer: everything written to the send stream
    parsed,         \* per peer: how much of wire the peer has consumed
    inbox,          \* per peer: requests received and not yet answered
    recv_stream,    \* per peer: every response the peer has sent
    taken,          \* per peer: how many of them the reader has read
    reader          \* the inbound reader: the response it is resolving

vertexVars == <<graph, graph0, all_local, last>>
rpcVars == <<frames, calls, minted, result_multiplexing_channels, table_lock,
             streams_readers, stream_lock, wire, parsed, inbox, recv_stream,
             taken, reader>>
vars == <<graph, graph0, all_local, last, frames, calls, minted,
          result_multiplexing_channels, table_lock, streams_readers,
          stream_lock, wire, parsed, inbox, recv_stream, taken,
          reader>>

(***************************************************************************)
(* Option<Data<T>>                                                         *)
(***************************************************************************)
None == <<>>
Some(x) == <<x>>
IsSome(o) == Len(o) = 1
Unwrap(o) == o[1]

Range(s) == {s[i] : i \in DOMAIN s}

RECURSIVE SeqOf(_)
SeqOf(S) == IF S = {} THEN <<>>
            ELSE LET x == CHOOSE y \in S : \A z \in S : y <= z
                 IN <<x>> \o SeqOf(S \ {x})

(***************************************************************************)
(* LocalVertex                                                             *)
(***************************************************************************)
\* mutant: a constructor that marks the new vertex as lent out
LocalVertex_new_leased(incoming, outgoing, edges, data) ==
    [incoming_edges |-> incoming,
     outgoing_edges |-> outgoing,
     edges |-> edges,
     data |-> data,
     borrowed_in |-> FALSE,
     leased_out |-> TRUE]

LocalVertex_new(incoming, outgoing, edges, data) ==
    [incoming_edges |-> incoming,
     outgoing_edges |-> outgoing,
     edges |-> edges,
     data |-> data,
     borrowed_in |-> FALSE,
     leased_out |-> FALSE]

\* incoming and outgoing are slices; the three sets are collected from them
create_vertex(incoming, outgoing, data) ==
    LocalVertex_new(Range(incoming), Range(outgoing),
                    Range(incoming \o outgoing), Some(data))

LocalVertex_children(self) == self.outgoing_edges
LocalVertex_parents(self) == self.incoming_edges
LocalVertex_edges(self) == self.edges
get_data(self) == self.data

\* get_data_mut hands out &mut self.data; the caller stores `value` through it
get_data_mut(self, value) == [self EXCEPT !.data = value]

\* mutant: set_data without the lease check
set_data_unchecked(self, data) ==
    [self |-> [self EXCEPT !.data = Some(data)], ret |-> self.data]

\* set_data: the vertex afterwards and the returned Option
set_data(self, data) ==
    IF self.leased_out
    THEN [self |-> self, ret |-> None]
    ELSE [self |-> [self EXCEPT !.data = Some(data)], ret |-> self.data]

(***************************************************************************)
(* VertexType and Vertex                                                   *)
(***************************************************************************)
RemoteVertex_new(location) == [location |-> location]

Local(local_v) == [tag |-> "Local", local |-> local_v]
Borrowed(local_v) == [tag |-> "Borrowed", local |-> local_v]
Remote(remote_v) == [tag |-> "Remote", remote |-> remote_v]

Vertex(id, v_type) == [id |-> id, v_type |-> v_type]

IsResident(v) == v.v_type.tag \in {"Local", "Borrowed"}

Ok(x) == [panic |-> FALSE, val |-> x]
Panic(msg) == [panic |-> TRUE, val |-> msg]

\* mutant: children() answers a Remote vertex with the empty set
Vertex_children_lenient(v) ==
    IF IsResident(v) THEN Ok(LocalVertex_children(v.v_type.local))
    ELSE Ok({})

\* The accessors of Vertex: a value for Local | Borrowed, a panic for Remote
Vertex_children(v) ==
    IF IsResident(v) THEN Ok(LocalVertex_children(v.v_type.local))
    ELSE Panic("Remote Node should not invoke children() function")
Vertex_parents(v) ==
    IF IsResident(v) THEN Ok(LocalVertex_parents(v.v_type.local))
    ELSE Panic("Remote Node should not invoke parents() function")
Vertex_edges(v) ==
    IF IsResident(v) THEN Ok(LocalVertex_edges(v.v_type.local))
    ELSE Panic("Remote Node should not invoke edges() function")
get_val(v) ==
    IF IsResident(v) THEN Ok(get_data(v.v_type.local))
    ELSE Panic("Remote Node should not invoke get_val() function")

(***************************************************************************)
(* Graph construction (the graph module and the placement of vertices are  *)
(* collaborators of vertex.rs): a forest given by a parent map, a kind per *)
(* vertex and a payload per vertex.                                        *)
(***************************************************************************)
Forests == {p \in [VertexIDs -> 0..MaxVertex] : \A v \in VertexIDs : p[v] < v}
Chain == [v \in VertexIDs |-> v - 1]
Fan == [v \in VertexIDs |-> IF v = 1 THEN 0 ELSE 1]
Shapes == {Chain, Fan}

ChildrenOf(par, v) == {w \in VertexIDs : par[w] = v}

\* the peer a vertex lives on when it is not resident here
Location(v) == ((v - 1) % NumPeers) + 1

KindMaps == [VertexIDs -> {"Local", "Remote", "Borrowed"}]
\* a threshold splits resident from remote vertices, either way round
CutKindMaps ==
    {[v \in VertexIDs |-> IF (v <= c) = low THEN res ELSE "Remote"] :
        c \in 0..MaxVertex, low \in BOOLEAN, res \in {"Local", "Borrowed"}}

RECURSIVE Pow2(_)
Pow2(n) == IF n = 0 THEN 1 ELSE 2 * Pow2(n - 1)
\* scheme 0: pairwise distinct payloads; scheme s > 0: every vertex holds s
Payload(scheme, v) == IF scheme = 0 THEN Pow2(v - 1) ELSE scheme
PaySchemes == 0..MaxVal

BuildVertex(par, kind, scheme, v) ==
    LET local_v == create_vertex(IF par[v] = 0 THEN <<>> ELSE <<par[v]>>,
                                 SeqOf(ChildrenOf(par, v)),
                                 Payload(scheme, v))
    IN  Vertex(v, CASE kind = "Local" -> Local(local_v)
                    [] kind = "Borrowed" -> Borrowed(local_v)
                    [] kind = "Remote" -> Remote(RemoteVertex_new(Location(v))))

BuildGraph(par, kinds, scheme) ==
    [v \in VertexIDs |-> BuildVertex(par, kinds[v], scheme, v)]

AllLocal(par, scheme) ==
    BuildGraph(par, [v \in VertexIDs |-> "Local"], scheme)

(***************************************************************************)
(* GraphSum::execute and Vertex::apply_function as one recursive function  *)
(* of a graph: the value a call returns when nothing runs concurrently.    *)
(* `owner` is the graph of the peers: a Remote vertex is answered from it. *)
(***************************************************************************)
RECURSIVE SumResults(_, _)
SumResults(rs, S) ==
    IF S = {} THEN Ok(0)
    ELSE LET k == CHOOSE x \in S : TRUE
             rest == SumResults(rs, S \ {k})
         IN  IF rs[k].panic THEN rs[k]
             ELSE IF rest.panic THEN rest
             ELSE Ok(rs[k].val + rest.val)

RECURSIVE GraphSum_execute(_, _, _)
apply_function(g, owner, id) ==
    IF IsResident(g[id])
    THEN GraphSum_execute(g, owner, id)
    ELSE GraphSum_execute(owner, owner, id)

GraphSum_execute(g, owner, id) ==
    LET vertex == g[id]
        val == get_val(vertex)
        kids == Vertex_children(vertex)
    IN  IF val.panic THEN val
        ELSE IF ~IsSome(val.val) THEN Panic("unwrap on None")
        ELSE IF kids.panic THEN kids
        ELSE LET rs == [k \in kids.val |->
                          IF k \in DOMAIN g
                          THEN apply_function(g, owner, k)
                          ELSE Panic("node not found")]
                 sub == SumResults(rs, kids.val)
             IN  IF sub.panic THEN sub
                 ELSE Ok(Unwrap(val.val) + sub.val)

(***************************************************************************)
(* Operations on a vertex of the registry, one call at a time.  `last`     *)
(* records the call and what it returned.                                  *)
(***************************************************************************)
EmptyMap == [x \in {} |-> 0]

Called(op, id, arg, out) == [op |-> op, id |-> id, arg |-> arg, out |-> out]

RpcIdle(workload) ==
    /\ frames = <<>>
    /\ calls = workload
    /\ minted = {}
    /\ result_multiplexing_channels = EmptyMap
    /\ table_lock = 0
    /\ streams_readers = {}
    /\ stream_lock = [p \in MachineIDs |-> 0]
    /\ wire = [p \in MachineIDs |-> <<>>]
    /\ parsed = [p \in MachineIDs |-> 0]
    /\ inbox = [p \in MachineIDs |-> {}]
    /\ recv_stream = [p \in MachineIDs |-> <<>>]
    /\ taken = [p \in MachineIDs |-> 0]
    /\ reader = None

\* leased_out is a private field no function writes: set here as code
\* inside vertex.rs (a test, a future leasing handshake) could set it
WithLease(g, leased) ==
    [v \in DOMAIN g |->
        IF IsResident(g[v])
        THEN [g[v] EXCEPT !.v_type.local.leased_out = (v \in leased)]
        ELSE g[v]]

\* every vertex as LocalVertex::new / create_vertex leave it; the operations
\* of one behaviour are those on one vertex, `focus`
InitVertex ==
    /\ \E par \in Shapes, kinds \in CutKindMaps, scheme \in PaySchemes :
          /\ graph = BuildGraph(par, kinds, scheme)
          /\ all_local = AllLocal(par, scheme)
    /\ graph0 = graph
    /\ \E focus \in VertexIDs : last = Called("new", focus, None, Ok(None))
    /\ RpcIdle(<<>>)

\* as InitVertex, with the vertices of `leased` marked leased_out
InitLease ==
    /\ \E par \in Shapes, kinds \in CutKindMaps, scheme \in PaySchemes,
          leased \in {{}, VertexIDs} :
          /\ graph = WithLease(BuildGraph(par, kinds, scheme), leased)
          /\ all_local = AllLocal(par, scheme)
    /\ graph0 = graph
    /\ \E focus \in VertexIDs : last = Called("new", focus, None, Ok(None))
    /\ RpcIdle(<<>>)

\* a panic aborts the process
Running(id) == ~last.out.panic /\ id = last.id

Read(op, id, out) ==
    /\ Running(id)
    /\ last' = Called(op, id, None, out)
    /\ UNCHANGED <<graph, graph0, all_local>>
    /\ UNCHANGED rpcVars

OpChildren(id) == Read("children", id, Vertex_children(graph[id]))
OpParents(id) == Read("parents", id, Vertex_parents(graph[id]))
OpEdges(id) == Read("edges", id, Vertex_edges(graph[id]))
OpGetVal(id) == Read("get_val", id, get_val(graph[id]))

\* LocalVertex::get_data, reached by matching on v_type
OpGetData(id) ==
    /\ IsResident(graph[id])
    /\ Read("get_data", id, Ok(get_data(graph[id].v_type.local)))

OpSetData(id, data) ==
    /\ Running(id)
    /\ IsResident(graph[id])
    /\ LET r == set_data(graph[id].v_type.local, data)
       IN  /\ graph' = [graph EXCEPT ![id].v_type.local = r.self]
           /\ last' = Called("set_data", id, Some(data), Ok(r.ret))
    /\ UNCHANGED <<graph0, all_local>>
    /\ UNCHANGED rpcVars

\* *v.get_data_mut() = value
OpGetDataMut(id, value) ==
    /\ Running(id)
    /\ IsResident(graph[id])
    /\ graph' = [graph EXCEPT
                    ![id].v_type.local = get_data_mut(graph[id].v_type.local, value)]
    /\ last' = Called("get_data_mut", id, value, Ok(value))
    /\ UNCHANGED <<graph0, all_local>>
    /\ UNCHANGED rpcVars

\* a whole apply_function call with nothing running beside it
OpApply(id) == Read("apply_function", id, apply_function(graph, all_local, id))

NextVertex ==
    \E id \in VertexIDs :
        \/ OpChildren(id)
        \/ OpParents(id)
        \/ OpEdges(id)
        \/ OpGetVal(id)
        \/ OpGetData(id)
        \/ \E data \in Values : OpSetData(id, data)
        \/ \E value \in {None} \cup {Some(d) : d \in Values} : OpGetDataMut(id, value)
        \/ OpApply(id)

SpecVertex == InitVertex /\ [][NextVertex]_vars
SpecLease == InitLease /\ [][NextVertex]_vars

(***************************************************************************)
(* The calls in flight.  A frame is one invocation of apply_function: on a *)
(* Local or Borrowed vertex it runs GraphSum::execute, on a Remote vertex  *)
(* it runs remote_execute.  What runs between two awaits is one step.      *)
(***************************************************************************)
\* mutant: the guards of the stream are dropped after the response has come
remote_execute_drop_last ==
    <<"table_write", "insert", "stream_lock", "write", "recv", "drop">>

\* mutant: the request is sent before the completion slot is registered
remote_execute_send_first ==
    <<"stream_lock", "write", "drop", "table_write", "insert", "recv">>

\* the awaits of remote_execute, in program order
remote_execute_order ==
    <<"table_write", "insert", "stream_lock", "write", "drop", "recv">>

Then(pc) ==
    LET i == CHOOSE j \in DOMAIN remote_execute_order :
                 remote_execute_order[j] = pc
    IN  IF i < Len(remote_execute_order) THEN remote_execute_order[i + 1]
        ELSE "done"

\* mutant: only Local runs in process, Borrowed goes to the peer
Dispatch_local_only(vertex) ==
    IF vertex.v_type.tag = "Local" THEN "execute" ELSE remote_execute_order[1]

\* the match of apply_function: where a call on this vertex starts
Dispatch(vertex) ==
    IF IsResident(vertex) THEN "execute" ELSE remote_execute_order[1]

\* mutant: every call gets the same id
NewRequestID_fixed(used) == 1

\* Uuid::new_v4(): a token no earlier call got
NewRequestID(used) == Cardinality(used) + 1

\* mutant: one channel, made by the first call, serves every call
Sender_shared(f) == 1

\* the sender half stored in the table belongs to the channel of this call
Sender(f) == f

NewFrame(v, parent, aux) ==
    LET remote == ~IsResident(graph[v])
    IN  [vertex |-> v,
         parent |-> parent,
         aux |-> aux,
         pc |-> Dispatch(graph[v]),
         count |-> 0,
         todo |-> {},
         id |-> IF remote THEN NewRequestID(minted) ELSE 0,
         written |-> 0,
         rx |-> <<>>,
         ret |-> 0]

Minted(v) ==
    IF IsResident(graph[v]) THEN minted ELSE minted \cup {NewRequestID(minted)}

\* mutant: count = result instead of count += result
Complete_overwriting(fs, f, value) ==
    LET p == fs[f].parent
        fs1 == [fs EXCEPT ![f].pc = "done", ![f].ret = value]
    IN  IF p = 0 THEN fs1
        ELSE [fs1 EXCEPT ![p].count = value, ![p].pc = "loop"]

\* the call of frame f returns value: its caller, if any, adds it and goes on
Complete(fs, f, value) ==
    LET p == fs[f].parent
        fs1 == [fs EXCEPT ![f].pc = "done", ![f].ret = value]
    IN  IF p = 0 THEN fs1
        ELSE [fs1 EXCEPT ![p].count = @ + value, ![p].pc = "loop"]

\* a panic in frame f unwinds the whole chain of callers
RECURSIVE Unwind(_, _)
Unwind(fs, f) ==
    IF f = 0 THEN fs
    ELSE Unwind([fs EXCEPT ![f].pc = "panicked"], fs[f].parent)

At(f, pc) == f \in DOMAIN frames /\ frames[f].pc = pc

\* bincode of Option<u64>: a tag, then the value if there is one
Serialize(aux) == IF aux = None THEN <<0>> ELSE <<1, Unwrap(aux)>>
Deserialize(bytes) == IF bytes[1] = 0 THEN None ELSE Some(bytes[2])

\* mutant: the RequestID goes where the vertex id belongs
Command_wrong_vertex(id, vertex_id, aux_info_len) ==
    [rpc |-> "Execute", id |-> id, vertex_id |-> id,
     aux_info_len |-> aux_info_len]

\* rpc::RPC::Execute(id, vertex_id, aux_info_len)
Command(id, vertex_id, aux_info_len) ==
    [rpc |-> "Execute", id |-> id, vertex_id |-> vertex_id,
     aux_info_len |-> aux_info_len]

\* what travels: the command, then each unit of the auxiliary information;
\* `by` names the call that wrote the unit (it is not on the real wire)
CommandUnit(f, cmd) == [by |-> f, head |-> TRUE, cmd |-> cmd, byte |-> 0]
AuxUnit(f, b) == [by |-> f, head |-> FALSE, cmd |-> Command(0, 0, 0), byte |-> b]

\* [command, aux_info].concat()
Request(fr, f) ==
    LET aux_info == Serialize(fr.aux)
        command == Command(fr.id, fr.vertex, Len(aux_info))
    IN  <<CommandUnit(f, command)>> \o
        [i \in 1..Len(aux_info) |-> AuxUnit(f, aux_info[i])]

PeerOf(fr) == graph[fr.vertex].v_type.remote.location

AuxInfos == {None, Some(1)}

----------------------------------------------------------------------------
\* a caller invokes apply_function on a vertex of the registry
Call ==
    /\ calls # <<>>
    /\ calls' = Tail(calls)
    /\ frames' = Append(frames, NewFrame(Head(calls).vertex, 0, Head(calls).aux))
    /\ minted' = Minted(Head(calls).vertex)
    /\ UNCHANGED <<result_multiplexing_channels, table_lock, streams_readers,
                   stream_lock, wire, parsed, inbox, recv_stream, taken, reader>>
    /\ UNCHANGED vertexVars

\* GraphSum::execute up to the loop: count = 0; count += payload
ExecBegin(f) ==
    /\ At(f, "execute")
    /\ LET vertex == graph[frames[f].vertex]
           val == get_val(vertex)
           kids == Vertex_children(vertex)
       IN  frames' =
             IF val.panic \/ kids.panic THEN Unwind(frames, f)
             ELSE IF ~IsSome(val.val) THEN Unwind(frames, f)
             ELSE [frames EXCEPT ![f].count = 0 + Unwrap(val.val),
                                 ![f].todo = kids.val,
                                 ![f].pc = "loop"]
    /\ UNCHANGED <<calls, minted, result_multiplexing_channels, table_lock,
                   streams_readers, stream_lock, wire, parsed, inbox,
                   recv_stream, taken, reader>>
    /\ UNCHANGED vertexVars

\* mutant: the loop ends after the first child it takes
ExecChild_once(f, k) ==
    /\ At(f, "loop")
    /\ k \in frames[f].todo
    /\ IF k \notin DOMAIN graph
       THEN /\ frames' = Unwind(frames, f)
            /\ UNCHANGED minted
       ELSE /\ frames' = Append([frames EXCEPT ![f].todo = {},
                                               ![f].pc = "await"],
                                NewFrame(k, f, frames[f].aux))
            /\ minted' = Minted(k)
    /\ UNCHANGED <<calls, result_multiplexing_channels, table_lock,
                   streams_readers, stream_lock, wire, parsed, inbox,
                   recv_stream, taken, reader>>
    /\ UNCHANGED vertexVars

\* mutant: a child the graph does not hold is passed over
ExecChild_skipping(f, k) ==
    /\ At(f, "loop")
    /\ k \in frames[f].todo
    /\ IF k \notin DOMAIN graph
       THEN /\ frames' = [frames EXCEPT ![f].todo = @ \ {k}]
            /\ UNCHANGED minted
       ELSE /\ frames' = Append([frames EXCEPT ![f].todo = @ \ {k},
                                               ![f].pc = "await"],
                                NewFrame(k, f, frames[f].aux))
            /\ minted' = Minted(k)
    /\ UNCHANGED <<calls, result_multiplexing_channels, table_lock,
                   streams_readers, stream_lock, wire, parsed, inbox,
                   recv_stream, taken, reader>>
    /\ UNCHANGED vertexVars

\* the loop takes the next child, in the order the HashSet yields them, and
\* calls apply_function on it
ExecChild(f, k) ==
    /\ At(f, "loop")
    /\ k \in frames[f].todo
    /\ IF k \notin DOMAIN graph
       THEN /\ frames' = Unwind(frames, f)
            /\ UNCHANGED minted
       ELSE /\ frames' = Append([frames EXCEPT ![f].todo = @ \ {k},
                                               ![f].pc = "await"],
                                NewFrame(k, f, frames[f].aux))
            /\ minted' = Minted(k)
    /\ UNCHANGED <<calls, result_multiplexing_channels, table_lock,
                   streams_readers, stream_lock, wire, parsed, inbox,
                   recv_stream, taken, reader>>
    /\ UNCHANGED vertexVars

\* the loop is over: execute returns count
ExecReturn(f) ==
    /\ At(f, "loop")
    /\ frames[f].todo = {}
    /\ frames' = Complete(frames, f, frames[f].count)
    /\ UNCHANGED <<calls, minted, result_multiplexing_channels, table_lock,
                   streams_readers, stream_lock, wire, parsed, inbox,
                   recv_stream, taken, reader>>
    /\ UNCHANGED vertexVars

\* graph.result_multiplexing_channels.write().await
TableWrite(f) ==
    /\ At(f, "table_write")
    /\ table_lock = 0
    /\ table_lock' = f
    /\ frames' = [frames EXCEPT ![f].pc = Then("table_write")]
    /\ UNCHANGED <<calls, minted, result_multiplexing_channels,
                   streams_readers, stream_lock, wire, parsed, inbox,
                   recv_stream, taken, reader>>
    /\ UNCHANGED vertexVars

\* mutant: the write guard of the table outlives the statement
Insert_holding(f) ==
    /\ At(f, "insert")
    /\ table_lock = f
    /\ result_multiplexing_channels' =
          [i \in DOMAIN result_multiplexing_channels \cup {frames[f].id} |->
              IF i = frames[f].id THEN Sender(f)
              ELSE result_multiplexing_channels[i]]
    /\ frames' = [frames EXCEPT ![f].pc = Then("insert")]
    /\ UNCHANGED <<calls, minted, table_lock, streams_readers, stream_lock,
                   wire, parsed, inbox, recv_stream, taken, reader>>
    /\ UNCHANGED vertexVars

\* .insert(id, Mutex::new(tx)); the guard drops at the end of the statement
Insert(f) ==
    /\ At(f, "insert")
    /\ table_lock = f
    /\ result_multiplexing_channels' =
          [i \in DOMAIN result_multiplexing_channels \cup {frames[f].id} |->
              IF i = frames[f].id THEN Sender(f)
              ELSE result_multiplexing_channels[i]]
    /\ table_lock' = 0
    /\ frames' = [frames EXCEPT ![f].pc = Then("insert")]
    /\ UNCHANGED <<calls, minted, streams_readers, stream_lock, wire, parsed,
                   inbox, recv_stream, taken, reader>>
    /\ UNCHANGED vertexVars

\* mutant: one Mutex guards all the send streams
CanLock_global(holder) == \A q \in DOMAIN stream_lock : stream_lock[q] = 0

\* mutant: the stream is used without waiting for its Mutex
CanLock_always(holder) == TRUE

\* the Mutex of one send stream is free
CanLock(holder) == holder = 0

\* graph.rpc_sending_streams.read().await, then
\* rpc_sending_streams.get(&self.location).unwrap().lock().await.
\* Nothing in scope takes the write lock of the map, so read() never waits:
\* the call waits for the Mutex of the stream only.
StreamLock(f) ==
    /\ At(f, "stream_lock")
    /\ LET p == PeerOf(frames[f])
       IN  IF p \notin DOMAIN stream_lock
           THEN /\ frames' = Unwind(frames, f)
                /\ UNCHANGED <<stream_lock, streams_readers>>
           ELSE /\ CanLock(stream_lock[p])
                /\ streams_readers' = streams_readers \cup {f}
                /\ stream_lock' = [stream_lock EXCEPT ![p] = f]
                /\ frames' = [frames EXCEPT ![f].pc = Then("stream_lock")]
    /\ UNCHANGED <<calls, minted, result_multiplexing_channels, table_lock,
                   wire, parsed, inbox, recv_stream, taken, reader>>
    /\ UNCHANGED vertexVars

\* write_all(&[command, aux_info].concat()).await: the stream takes the
\* bytes in one or several writes
Write(f) ==
    /\ At(f, "write")
    /\ LET fr == frames[f]
           request == Request(fr, f)
           p == PeerOf(fr)
       IN  \E n \in 1..(Len(request) - fr.written) :
           /\ wire' = [wire EXCEPT ![p] =
                          @ \o SubSeq(request, fr.written + 1, fr.written + n)]
           /\ frames' = [frames EXCEPT
                            ![f].written = @ + n,
                            ![f].pc = IF fr.written + n = Len(request)
                                      THEN Then("write") ELSE "write"]
    /\ UNCHANGED <<calls, minted, result_multiplexing_channels, table_lock,
                   streams_readers, stream_lock, parsed, inbox, recv_stream, taken,
                   reader>>
    /\ UNCHANGED vertexVars

\* drop(rpc_sending_stream); drop(rpc_sending_streams);
Drop(f) ==
    /\ At(f, "drop")
    /\ stream_lock' = [p \in DOMAIN stream_lock |->
                          IF stream_lock[p] = f THEN 0 ELSE stream_lock[p]]
    /\ streams_readers' = streams_readers \ {f}
    /\ frames' = [frames EXCEPT ![f].pc = Then("drop")]
    /\ UNCHANGED <<calls, minted, result_multiplexing_channels, table_lock,
                   wire, parsed, inbox, recv_stream, taken, reader>>
    /\ UNCHANGED vertexVars

\* mutant: the call gives up waiting and returns a default value
Recv_timeout(f) ==
    /\ At(f, "recv")
    /\ frames' = Complete(frames, f, 0)
    /\ UNCHANGED <<calls, minted, result_multiplexing_channels, table_lock,
                   streams_readers, stream_lock, wire, parsed, inbox,
                   recv_stream, taken, reader>>
    /\ UNCHANGED vertexVars

\* rx.recv().await.unwrap(): the call returns what arrives on its channel
Recv(f) ==
    /\ At(f, "recv")
    /\ frames[f].rx # <<>>
    /\ frames' = Complete([frames EXCEPT ![f].rx = Tail(@)], f,
                          Head(frames[f].rx))
    /\ UNCHANGED <<calls, minted, result_multiplexing_channels, table_lock,
                   streams_readers, stream_lock, wire, parsed, inbox,
                   recv_stream, taken, reader>>
    /\ UNCHANGED vertexVars

----------------------------------------------------------------------------
\* The peer p (its code is the inbound side, outside vertex.rs): it reads one
\* whole request off the stream ...
PeerReceive(p) ==
    /\ Len(wire[p]) > parsed[p]
    /\ LET w == wire[p]
           first == w[parsed[p] + 1]
           len == first.cmd.aux_info_len
           last_unit == parsed[p] + 1 + len
       IN  /\ first.head
           /\ Len(w) >= last_unit
           /\ \A i \in (parsed[p] + 2)..last_unit : ~w[i].head
           /\ inbox' = [inbox EXCEPT ![p] = @ \cup
                 {[id |-> first.cmd.id,
                   vertex_id |-> first.cmd.vertex_id,
                   aux |-> Deserialize([i \in 1..len |->
                                           w[parsed[p] + 1 + i].byte])]}]
           /\ parsed' = [parsed EXCEPT ![p] = last_unit]
    /\ UNCHANGED <<frames, calls, minted, result_multiplexing_channels,
                   table_lock, streams_readers, stream_lock, wire, recv_stream, taken,
                   reader>>
    /\ UNCHANGED vertexVars

\* ... and answers the requests it holds, in any order, with the result of
\* the same UDF on its own copy of the vertex
PeerRespond(p, req) ==
    /\ req \in inbox[p]
    /\ LET result == apply_function(all_local, all_local, req.vertex_id)
       IN  /\ ~result.panic
           /\ recv_stream' = [recv_stream EXCEPT ![p] =
                                 Append(@, [id |-> req.id, val |-> result.val])]
    /\ inbox' = [inbox EXCEPT ![p] = @ \ {req}]
    /\ UNCHANGED <<frames, calls, minted, result_multiplexing_channels,
                   table_lock, streams_readers, stream_lock, wire, parsed,
                   taken, reader>>
    /\ UNCHANGED vertexVars

\* A test double in the place of the peer: it answers a request with a value
\* fixed by the vertex and the RequestID, a different one for each pair
Echo(vertex_id, id) == id * (MaxVertex + 1) + vertex_id

PeerEcho(p, req) ==
    /\ req \in inbox[p]
    /\ recv_stream' = [recv_stream EXCEPT ![p] =
                          Append(@, [id |-> req.id,
                                     val |-> Echo(req.vertex_id, req.id)])]
    /\ inbox' = [inbox EXCEPT ![p] = @ \ {req}]
    /\ UNCHANGED <<frames, calls, minted, result_multiplexing_channels,
                   table_lock, streams_readers, stream_lock, wire, parsed,
                   taken, reader>>
    /\ UNCHANGED vertexVars

\* The inbound reader takes the next response of some peer and the lock of
\* the pending table, ...
ReaderRead(p) ==
    /\ reader = None
    /\ Len(recv_stream[p]) > taken[p]
    /\ table_lock = 0
    /\ table_lock' = -1
    /\ reader' = Some(recv_stream[p][taken[p] + 1])
    /\ taken' = [taken EXCEPT ![p] = @ + 1]
    /\ UNCHANGED <<frames, calls, minted, result_multiplexing_channels,
                   streams_readers, stream_lock, wire, parsed, inbox,
                   recv_stream>>
    /\ UNCHANGED vertexVars

\* mutant: a response without an entry is handed to the call that once had
\* its RequestID
ReaderResolve_late ==
    /\ table_lock = -1
    /\ LET response == Unwrap(reader)
           table == result_multiplexing_channels
           owners == {f \in DOMAIN frames : frames[f].id = response.id}
       IN  IF response.id \in DOMAIN table
           THEN /\ result_multiplexing_channels' =
                      [i \in DOMAIN table \ {response.id} |-> table[i]]
                /\ frames' = [frames EXCEPT ![table[response.id]].rx =
                                                Append(@, response.val)]
           ELSE /\ UNCHANGED result_multiplexing_channels
                /\ frames' = [f \in DOMAIN frames |->
                                 IF f \in owners
                                 THEN [frames[f] EXCEPT !.rx = Append(@, response.val)]
                                 ELSE frames[f]]
    /\ table_lock' = 0
    /\ reader' = None
    /\ UNCHANGED <<calls, minted, streams_readers, stream_lock, wire, parsed,
                   inbox, recv_stream, taken>>
    /\ UNCHANGED vertexVars

\* ... removes the entry of the RequestID and resolves its slot; a response
\* without an entry is dropped
ReaderResolve ==
    /\ table_lock = -1
    /\ LET response == Unwrap(reader)
           table == result_multiplexing_channels
       IN  IF response.id \in DOMAIN table
           THEN /\ result_multiplexing_channels' =
                      [i \in DOMAIN table \ {response.id} |-> table[i]]
                /\ frames' = [frames EXCEPT ![table[response.id]].rx =
                                                Append(@, response.val)]
           ELSE UNCHANGED <<result_multiplexing_channels, frames>>
    /\ table_lock' = 0
    /\ reader' = None
    /\ UNCHANGED <<calls, minted, streams_readers, stream_lock, wire, parsed,
                   inbox, recv_stream, taken>>
    /\ UNCHANGED vertexVars

Callers ==
    \/ Call
    \/ \E f \in DOMAIN frames : ExecBegin(f)
    \/ \E f \in DOMAIN frames, k \in VertexIDs : ExecChild(f, k)
    \/ \E f \in DOMAIN frames : ExecReturn(f)
    \/ \E f \in DOMAIN frames : TableWrite(f)
    \/ \E f \in DOMAIN frames : Insert(f)
    \/ \E f \in DOMAIN frames : StreamLock(f)
    \/ \E f \in DOMAIN frames : Write(f)
    \/ \E f \in DOMAIN frames : Drop(f)
    \/ \E f \in DOMAIN frames : Recv(f)

Reader ==
    \/ \E p \in MachineIDs : ReaderRead(p)
    \/ ReaderResolve

\* the callers of this machine, the reader, and a test double for each peer
Next ==
    \/ Callers
    \/ Reader
    \/ \E p \in MachineIDs : PeerReceive(p)
    \/ \E p \in MachineIDs : \E req \in inbox[p] : PeerEcho(p, req)

\* the same, with peers that run the UDF on the vertices they own
NextSum ==
    \/ Callers
    \/ Reader
    \/ \E p \in MachineIDs : PeerReceive(p)
    \/ \E p \in MachineIDs : \E req \in inbox[p] : PeerRespond(p, req)

\* The top-level calls of one run, all with the same auxiliary information.
\* Frames are told apart only by their index, so the calls are issued in the
\* order of their vertex ids; they still run in every interleaving.
Workloads(n) ==
    {[i \in 1..n |-> [vertex |-> w[i], aux |-> aux]] :
        w \in {x \in [1..n -> VertexIDs] :
                  \A i \in 1..n, j \in 1..n : i <= j => x[i] <= x[j]},
        aux \in AuxInfos}

\* MaxCalls callers at once on a chain with pairwise distinct payloads: the
\* first vertex lives here, the others on the peers
Init ==
    /\ graph = BuildGraph(Chain,
                          [v \in VertexIDs |->
                              IF v = 1 THEN "Local" ELSE "Remote"], 0)
    /\ all_local = AllLocal(Chain, 0)
    /\ graph0 = graph
    /\ last = Called("new", 0, None, Ok(None))
    /\ \E workload \in Workloads(MaxCalls) : RpcIdle(workload)

\* one caller on any forest, any placement
InitSum ==
    /\ \E par \in Forests, kinds \in KindMaps, scheme \in PaySchemes :
          /\ graph = BuildGraph(par, kinds, scheme)
          /\ all_local = AllLocal(par, scheme)
    /\ graph0 = graph
    /\ last = Called("new", 0, None, Ok(None))
    /\ \E workload \in Workloads(1) : RpcIdle(workload)

Spec == Init /\ [][Next]_vars
SpecSum == InitSum /\ [][NextSum]_vars

\* MaxCalls callers at once, none with auxiliary information
InitLocks == Init /\ \A i \in DOMAIN calls : calls[i].aux = None

SpecLocks == InitLocks /\ [][Next]_vars

\* the first caller sums from the resident root, the others call vertices of
\* the peers directly
InitLive ==
    InitLocks /\ \A i \in DOMAIN calls : (calls[i].vertex = 1) <=> (i = 1)

\* every task, the reader and the peers are scheduled again and again: a
\* behaviour does not stop while a step can be taken
SpecLive == InitLive /\ [][Next]_vars /\ WF_vars(Next)

(***************************************************************************)
(* Failures.  write_all may return an error, which unwrap() turns into a   *)
(* panic of the calling task; a peer may repeat a response; the graph may  *)
(* name a vertex it does not hold.                                         *)
(***************************************************************************)
\* mutant: a failed write starts the request over
WriteFail_retry(f) ==
    /\ At(f, "write")
    /\ frames' = [frames EXCEPT ![f].written = 0]
    /\ frames' # frames
    /\ UNCHANGED <<calls, minted, result_multiplexing_channels, table_lock,
                   streams_readers, stream_lock, wire, parsed, inbox,
                   recv_stream, taken, reader>>
    /\ UNCHANGED vertexVars

\* write_all(..).await returns Err, before or after a part of the bytes went
\* out: unwrap() panics, the unwinding drops both guards; the entry of the
\* call stays in the pending table
WriteFail(f) ==
    /\ At(f, "write")
    /\ frames' = Unwind(frames, f)
    /\ stream_lock' = [p \in DOMAIN stream_lock |->
                          IF stream_lock[p] = f THEN 0 ELSE stream_lock[p]]
    /\ streams_readers' = streams_readers \ {f}
    /\ UNCHANGED <<calls, minted, result_multiplexing_channels, table_lock,
                   wire, parsed, inbox, recv_stream, taken, reader>>
    /\ UNCHANGED vertexVars

\* how often a peer may repeat a response
MaxRepeat == 1

\* the peer sends a response it has sent before once more
PeerRepeat(p) ==
    /\ \E i \in DOMAIN recv_stream[p] :
          /\ Cardinality({j \in DOMAIN recv_stream[p] :
                             recv_stream[p][j].id = recv_stream[p][i].id})
                <= MaxRepeat
          /\ recv_stream' = [recv_stream EXCEPT ![p] = Append(@, recv_stream[p][i])]
    /\ UNCHANGED <<frames, calls, minted, result_multiplexing_channels,
                   table_lock, streams_readers, stream_lock, wire, parsed,
                   inbox, taken, reader>>
    /\ UNCHANGED vertexVars

\* the system with a transport that may fail and peers that may repeat
NextFail ==
    \/ Callers
    \/ Reader
    \/ \E p \in MachineIDs : PeerReceive(p)
    \/ \E p \in MachineIDs : \E req \in inbox[p] : PeerEcho(p, req)
    \/ \E f \in DOMAIN frames : WriteFail(f)
    \/ \E p \in MachineIDs : PeerRepeat(p)

\* One caller on a chain whose first `cut` vertices are Local; the rest is
\* Remote, or is missing from the registry although the last Local vertex
\* names it
InitFail ==
    /\ \E cut \in 1..(MaxVertex - 1), dangling \in BOOLEAN :
          LET whole == BuildGraph(Chain,
                                  [v \in VertexIDs |->
                                      IF v <= cut THEN "Local" ELSE "Remote"], 0)
          IN  graph = IF dangling THEN [v \in 1..cut |-> whole[v]] ELSE whole
    /\ all_local = AllLocal(Chain, 0)
    /\ graph0 = graph
    /\ last = Called("new", 0, None, Ok(None))
    /\ \E workload \in Workloads(1) :
          /\ \A i \in DOMAIN workload : workload[i].vertex \in DOMAIN graph
          /\ RpcIdle(workload)

SpecFail == InitFail /\ [][NextFail]_vars

(***************************************************************************)
(* Claims about LocalVertex and the accessors of Vertex.                   *)
(***************************************************************************)
LocalOf(g, id) == g[id].v_type.local

\* C5: set_data on a leased-out vertex keeps the payload and returns None;
\* otherwise it stores the value and returns the previous payload.  Either
\* way the adjacency sets, borrowed_in and leased_out stay as they were.
C5_SetDataContract ==
    [][last'.op = "set_data" =>
        LET before == LocalOf(graph, last'.id)
            after == LocalOf(graph', last'.id)
        IN  /\ ~last'.out.panic
            /\ before.leased_out =>
                  after.data = before.data /\ last'.out.val = None
            /\ ~before.leased_out =>
                  after.data = last'.arg /\ last'.out.val = before.data
            /\ after.incoming_edges = before.incoming_edges
            /\ after.outgoing_edges = before.outgoing_edges
            /\ after.edges = before.edges
            /\ after.borrowed_in = before.borrowed_in
            /\ after.leased_out = before.leased_out
            /\ \A other \in VertexIDs \ {last'.id} : graph'[other] = graph[other]
    ]_vars

C5_Witness ==
    /\ last.op = "set_data"
    /\ LocalOf(graph, last.id).leased_out
    /\ last.out.val = None
    /\ LocalOf(graph, last.id).data # last.arg

C7_NeverLeased ==
    /\ \A id \in VertexIDs :
          IsResident(graph[id]) => ~LocalOf(graph, id).leased_out
    /\ last.op = "set_data" => LocalOf(graph, last.id).data = last.arg

C7_Witness ==
    /\ last.op = "set_data"
    /\ graph[last.id].v_type.tag = "Borrowed"
    /\ LocalOf(graph, last.id).data = last.arg
    /\ LocalOf(graph, last.id).data # LocalOf(graph0, last.id).data

\* C8: children, parents, edges and get_val return the outgoing set, the
\* incoming set, the edge set and the payload of a Local or Borrowed vertex
\* and change nothing; on a Remote vertex they panic, and nothing runs after.
Accessed(op, local_v) ==
    CASE op = "children" -> local_v.outgoing_edges
      [] op = "parents" -> local_v.incoming_edges
      [] op = "edges" -> local_v.edges
      [] op = "get_val" -> local_v.data

C8_Accessors ==
    [][/\ ~last.out.panic
       /\ last'.op \in {"children", "parents", "edges", "get_val"} =>
             /\ graph' = graph
             /\ IF IsResident(graph[last'.id])
                THEN /\ ~last'.out.panic
                     /\ last'.out.val = Accessed(last'.op, LocalOf(graph, last'.id))
                ELSE last'.out.panic
    ]_vars

C8_Witness ==
    /\ last.op = "children"
    /\ graph[last.id].v_type.tag = "Remote"
    /\ last.out.panic

(***************************************************************************)
(* Claims about remote_execute, GraphSum and apply_function.               *)
(***************************************************************************)
RemoteFrames ==
    {f \in DOMAIN frames : ~IsResident(graph[frames[f].vertex])}
TopFrames == {f \in DOMAIN frames : frames[f].parent = 0}

Pending == DOMAIN result_multiplexing_channels

\* the slot of the call has been registered: its entry is in the table, or
\* the reader has taken it out and resolved it
Registered(f) ==
    \/ frames[f].id \in Pending
    \/ frames[f].rx # <<>>
    \/ frames[f].pc = "done"

\* the responses of peer p the reader has not read yet
InFlight(p) == {recv_stream[p][i] : i \in (taken[p] + 1)..Len(recv_stream[p])}
\* the responses the reader has read and resolved
Resolved(p) ==
    {recv_stream[p][i] : i \in 1..taken[p]} \ (IF reader = None THEN {} ELSE {Unwrap(reader)})
Sent == UNION {Range(recv_stream[p]) : p \in MachineIDs}

\* C1: whatever of a request is on the send stream, in the hands of the peer
\* or answered, the slot of its RequestID was registered before.
C1_RegisteredBeforeSend ==
    /\ \A p \in MachineIDs : \A i \in DOMAIN wire[p] : Registered(wire[p][i].by)
    /\ \A p \in MachineIDs : \A req \in inbox[p] :
          \E f \in RemoteFrames : frames[f].id = req.id /\ Registered(f)
    /\ \A p \in MachineIDs : \A r \in InFlight(p) : r.id \in Pending
    /\ reader # None => Unwrap(reader).id \in Pending

C1_Witness ==
    \E p \in MachineIDs : \E r \in InFlight(p) :
        /\ r.id \in Pending
        /\ \E f \in RemoteFrames : frames[f].id = r.id /\ frames[f].pc = "recv"

\* C2: the send stream of a peer holds whole requests one after the other,
\* each the command of one call followed by the auxiliary payload of the
\* same call; only the request being written may be incomplete, at the end.
RECURSIVE WholeRequests(_, _)
WholeRequests(w, pos) ==
    IF pos > Len(w) THEN TRUE
    ELSE LET first == w[pos]
             f == first.by
             request == Request(frames[f], f)
             end == pos + Len(request) - 1
             upto == IF end <= Len(w) THEN end ELSE Len(w)
         IN  /\ first.head
             /\ first.cmd.aux_info_len = Len(request) - 1
             /\ \A i \in pos..upto : w[i] = request[i - pos + 1]
             /\ frames[f].written = upto - pos + 1
             /\ IF end <= Len(w) THEN WholeRequests(w, end + 1)
                ELSE frames[f].pc = "write"

C2_NoInterleaving ==
    \A p \in MachineIDs : WholeRequests(wire[p], 1)

C2_Witness ==
    \E f \in RemoteFrames, g \in RemoteFrames :
        /\ PeerOf(frames[f]) = PeerOf(frames[g])
        /\ frames[f].pc = "write" /\ frames[f].written > 0
        /\ frames[g].pc = "stream_lock"

\* C3: a remote call returns the value of the response that bears its own
\* RequestID, in whatever order the responses come back.
C3_OwnResult ==
    \A f \in RemoteFrames :
        /\ frames[f].pc = "done" =>
              /\ \E r \in Sent : r.id = frames[f].id /\ r.val = frames[f].ret
              /\ \A r \in Sent : r.id = frames[f].id => r.val = frames[f].ret
        /\ \A i \in DOMAIN frames[f].rx :
              \E r \in Sent : r.id = frames[f].id /\ r.val = frames[f].rx[i]

\* two calls to one peer, answered in the other order, with different values
C3_Witness ==
    \E f \in RemoteFrames, g \in RemoteFrames, p \in MachineIDs :
        /\ frames[f].pc = "done" /\ frames[g].pc = "done"
        /\ frames[f].ret # frames[g].ret
        /\ \E i, j \in DOMAIN wire[p] :
              i < j /\ wire[p][i].by = f /\ wire[p][j].by = g
        /\ \E i, j \in DOMAIN recv_stream[p] :
              /\ i < j
              /\ recv_stream[p][i].id = frames[g].id
              /\ recv_stream[p][j].id = frames[f].id

\* C4: every call has a RequestID of its own; its entry is in the table from
\* the insertion until its response is resolved, and never after: not when
\* the call has returned, and the table is empty when all calls have.
C4_NoLeak ==
    /\ \A f \in RemoteFrames, g \in RemoteFrames :
          f # g => frames[f].id # frames[g].id
    /\ \A id \in Pending :
          /\ \E f \in RemoteFrames :
                /\ frames[f].id = id
                /\ result_multiplexing_channels[id] = f
                /\ frames[f].rx = <<>>
                /\ frames[f].pc \notin {"table_write", "insert", "done"}
          /\ \A p \in MachineIDs : \A r \in Resolved(p) : r.id # id
    /\ \A f \in RemoteFrames : frames[f].pc = "done" => frames[f].id \notin Pending
    /\ (calls = <<>> /\ \A f \in DOMAIN frames : frames[f].pc = "done")
          => result_multiplexing_channels = EmptyMap

C4_Witness ==
    /\ calls = <<>>
    /\ Cardinality(RemoteFrames) >= 2
    /\ \A f \in DOMAIN frames : frames[f].pc = "done"
    /\ result_multiplexing_channels = EmptyMap
    /\ \A f \in RemoteFrames : \E p \in MachineIDs : \E r \in Resolved(p) :
          r.id = frames[f].id

\* the vertices GraphSum visits from v when every call stays on this machine
RECURSIVE Subtree(_, _)
Subtree(g, v) ==
    IF ~IsResident(g[v]) THEN {v}
    ELSE {v} \cup UNION {Subtree(g, k) : k \in LocalOf(g, v).outgoing_edges}

RECURSIVE PayloadSum(_, _)
PayloadSum(g, S) ==
    IF S = {} THEN 0
    ELSE LET v == CHOOSE x \in S : TRUE
         IN  Unwrap(LocalOf(g, v).data) + PayloadSum(g, S \ {v})

\* C9: on a tree of Local and Borrowed vertices apply_function with GraphSum
\* returns the sum of the payloads of the subtree: the payload itself on a
\* leaf, N * v on a chain of N vertices that each hold v.
C9_SubtreeSum ==
    \A f \in TopFrames :
        LET root == frames[f].vertex
            tree == Subtree(graph, root)
        IN  (frames[f].pc = "done" /\ \A x \in tree : IsResident(graph[x])) =>
              /\ frames[f].ret = PayloadSum(graph, tree)
              /\ tree = {root} =>
                    frames[f].ret = Unwrap(LocalOf(graph, root).data)
              /\ \A val \in Values :
                    (/\ \A x \in tree : LocalOf(graph, x).data = Some(val)
                     /\ \A x \in tree :
                           Cardinality(LocalOf(graph, x).outgoing_edges) <= 1)
                    => frames[f].ret = Cardinality(tree) * val

\* the whole chain, every vertex resident and holding MaxVal
C9_Witness ==
    \E f \in TopFrames :
        /\ frames[f].pc = "done"
        /\ Subtree(graph, frames[f].vertex) = VertexIDs
        /\ \A x \in VertexIDs :
              /\ IsResident(graph[x])
              /\ LocalOf(graph, x).data = Some(MaxVal)
              /\ Cardinality(LocalOf(graph, x).outgoing_edges) <= 1
        /\ frames[f].ret = MaxVertex * MaxVal

\* C10: a call returns what the same call returns on the graph of the same
\* topology and payloads with every vertex Local.
C10_SameAsAllLocal ==
    \A f \in TopFrames :
        frames[f].pc = "done" =>
            LET reference == apply_function(all_local, all_local, frames[f].vertex)
            IN  ~reference.panic /\ frames[f].ret = reference.val

\* a resident root that got part of its sum from a peer
C10_Witness ==
    \E f \in TopFrames :
        /\ frames[f].pc = "done"
        /\ IsResident(graph[frames[f].vertex])
        /\ \E g \in RemoteFrames : frames[g].parent = f /\ frames[g].pc = "done"
        /\ frames[f].ret > Unwrap(LocalOf(graph, frames[f].vertex).data)

(***************************************************************************)
(* Claims about waiting, failures and stray responses.                     *)
(***************************************************************************)
\* the units call f has put on the send streams
UnitsBy(w, f) ==
    UNION {{<<p, i>> : i \in {j \in DOMAIN w[p] : w[p][j].by = f}} :
              p \in MachineIDs}

\* C11: a remote call returns only from the await on its slot, with the value
\* of a response that bears its own RequestID; while nothing has been
\* delivered to its slot it stays at that await and sends nothing again.
C11_NoTimeout ==
    [][\A f \in RemoteFrames :
          /\ (frames'[f].pc = "done" /\ frames[f].pc # "done") =>
                /\ frames[f].pc = "recv"
                /\ frames[f].rx # <<>>
                /\ frames'[f].ret = Head(frames[f].rx)
                /\ \E r \in Sent : r.id = frames[f].id /\ r.val = frames'[f].ret
          /\ (frames[f].pc = "recv" /\ frames[f].rx = <<>>) =>
                /\ frames'[f].pc = "recv"
                /\ frames'[f].ret = frames[f].ret
                /\ UnitsBy(wire', f) = UnitsBy(wire, f)]_vars

\* every call is suspended on a peer that holds its request and keeps quiet
C11_Witness ==
    /\ calls = <<>>
    /\ reader = None
    /\ Cardinality(RemoteFrames) >= 2
    /\ \A f \in RemoteFrames :
          /\ frames[f].pc = "recv" /\ frames[f].rx = <<>>
          /\ \E req \in inbox[PeerOf(frames[f])] : req.id = frames[f].id
    /\ \A p \in MachineIDs : recv_stream[p] = <<>>

\* C15: a step of a writing call that puts nothing on the stream is a failed
\* write: it ends the call and its callers in the fatal outcome; a call in
\* the fatal outcome never changes again, returns nothing and writes nothing.
C15_SendFailureFatal ==
    [][\A f \in RemoteFrames :
          /\ (frames[f].pc = "write" /\ frames'[f] # frames[f] /\ wire' = wire) =>
                /\ frames'[f].pc = "panicked"
                /\ frames'[f].ret = 0
                /\ frames[f].parent # 0 =>
                      frames'[frames[f].parent].pc = "panicked"
          /\ frames[f].pc = "panicked" =>
                /\ frames'[f] = frames[f]
                /\ UnitsBy(wire', f) = UnitsBy(wire, f)]_vars

\* the write failed after a part of the request had gone out
C15_Witness ==
    \E f \in RemoteFrames :
        /\ frames[f].pc = "panicked"
        /\ frames[f].written > 0
        /\ frames[f].written < Len(Request(frames[f], f))
        /\ Cardinality(UnitsBy(wire, f)) = frames[f].written
        /\ frames[f].parent # 0 /\ frames[frames[f].parent].pc = "panicked"
        /\ \A p \in MachineIDs : stream_lock[p] = 0

\* the vertex reaches, through resident vertices, a VertexID the graph lacks
RECURSIVE Broken(_)
Broken(v) ==
    /\ IsResident(graph[v])
    /\ \E k \in LocalOf(graph, v).outgoing_edges :
          k \notin DOMAIN graph \/ Broken(k)

\* C16: a call on a vertex from which GraphSum reaches a missing vertex never
\* returns; a call in the fatal outcome has returned nothing and its caller is
\* in the fatal outcome too.
C16_MissingVertexFatal ==
    \A f \in DOMAIN frames :
        /\ Broken(frames[f].vertex) =>
              frames[f].pc # "done" /\ frames[f].ret = 0
        /\ frames[f].pc = "panicked" =>
              /\ frames[f].ret = 0
              /\ frames[f].parent # 0 => frames[frames[f].parent].pc = "panicked"

\* the lookup failed two calls deep, after payloads had been added up
C16_Witness ==
    \E f \in DOMAIN frames :
        /\ frames[f].pc = "panicked"
        /\ frames[f].parent # 0
        /\ \E k \in frames[f].todo : k \notin DOMAIN graph
        /\ frames[f].count > 0
        /\ frames[frames[f].parent].pc = "panicked"
        /\ frames[frames[f].parent].count > 0

\* C17: when the reader has handled a response whose RequestID has no entry,
\* the pending table and every call are as they were and the reader goes on.
C17_UnknownDropped ==
    [][(reader # None /\ reader' = None
            /\ Unwrap(reader).id \notin DOMAIN result_multiplexing_channels) =>
          /\ result_multiplexing_channels' = result_multiplexing_channels
          /\ frames' = frames
          /\ table_lock' = 0]_vars

\* a repeated response was handled after the call had returned
C17_Witness ==
    /\ reader = None
    /\ \E p \in MachineIDs : \E i, j \in 1..taken[p] :
          /\ i < j
          /\ recv_stream[p][i].id = recv_stream[p][j].id
          /\ \E f \in RemoteFrames :
                /\ frames[f].id = recv_stream[p][i].id
                /\ frames[f].pc = "done"
                /\ frames[f].rx = <<>>
                /\ frames[f].ret = recv_stream[p][i].val

(***************************************************************************)
(* Claims about locks.                                                     *)
(***************************************************************************)
\* the calls that hold, or are about to give back, the send stream of peer p
Holders(p) ==
    {f \in RemoteFrames : PeerOf(frames[f]) = p /\ frames[f].pc \in {"write", "drop"}}

\* C12: the Mutex of a send stream is held by calls to that peer only; a
\* call that asks for the stream of its peer gets it whenever no call to the
\* same peer holds it, whatever calls to other peers hold or wait for; and a
\* call that holds its stream can write.
C12_DistinctPeersIndependent ==
    /\ \A p \in MachineIDs :
          stream_lock[p] # 0 => stream_lock[p] \in Holders(p)
    /\ \A g \in RemoteFrames :
          /\ (frames[g].pc = "stream_lock" /\ Holders(PeerOf(frames[g])) = {})
                => ENABLED StreamLock(g)
          /\ frames[g].pc = "write" => ENABLED Write(g)

\* two calls hold the streams of two peers at once
C12_Witness ==
    \E f \in RemoteFrames, g \in RemoteFrames :
        /\ PeerOf(frames[f]) # PeerOf(frames[g])
        /\ stream_lock[PeerOf(frames[f])] = f
        /\ stream_lock[PeerOf(frames[g])] = g
        /\ frames[f].pc = "write" /\ frames[f].written > 0
        /\ frames[g].pc = "write" /\ frames[g].written > 0

\* the locks call f holds
LocksHeld(f) ==
    (IF table_lock = f THEN {<<"table", 0>>} ELSE {})
    \cup (IF f \in streams_readers THEN {<<"streams", 0>>} ELSE {})
    \cup {<<"stream", p>> : p \in {q \in MachineIDs : stream_lock[q] = f}}

\* C18: a call that waits for its response, or has returned, holds no lock;
\* the lock of the pending table is held at the insertion only, and is free
\* of the call before it asks for the send stream.
C18_NoLockWhileSuspended ==
    \A f \in RemoteFrames :
        /\ frames[f].pc \in {"recv", "done"} => LocksHeld(f) = {}
        /\ frames[f].pc \in {"stream_lock", "write", "drop"} => table_lock # f
        /\ table_lock = f => frames[f].pc = "insert"

\* a call waits for its response while another call holds the stream to the
\* same peer
C18_Witness ==
    \E f \in RemoteFrames, g \in RemoteFrames :
        /\ frames[f].pc = "recv" /\ frames[f].rx = <<>>
        /\ LocksHeld(f) = {}
        /\ PeerOf(frames[g]) = PeerOf(frames[f])
        /\ stream_lock[PeerOf(frames[f])] = g
        /\ frames[g].pc = "write"

\* C19: under fair scheduling, with peers that answer what they receive,
\* every call returns: no state is reached where a call waits for ever.
C19_AllReturn ==
    <>(calls = <<>> /\ \A f \in DOMAIN frames : frames[f].pc = "done")

\* all calls have returned after two of them went through the same stream
C19_Witness ==
    /\ calls = <<>>
    /\ \A f \in DOMAIN frames : frames[f].pc = "done"
    /\ ~ENABLED Next
    /\ \E p \in MachineIDs : \E f \in RemoteFrames, g \in RemoteFrames :
          /\ f # g
          /\ UnitsBy(wire, f) # {} /\ UnitsBy(wire, g) # {}
          /\ PeerOf(frames[f]) = p /\ PeerOf(frames[g]) = p

(***************************************************************************)
(* Claims about the dispatch and the result of GraphSum.                   *)
(***************************************************************************)
\* the vertices of the subtree of v in the topology alone
RECURSIVE Descendants(_)
Descendants(v) ==
    {v} \cup UNION {Descendants(k) : k \in LocalOf(all_local, v).outgoing_edges}

\* C13: what a call returns is a function of the topology and the payloads:
\* the sum of the payloads below its vertex, whichever vertices are Local,
\* Borrowed or Remote and in whatever order the children are visited.
C13_Deterministic ==
    \A f \in DOMAIN frames :
        frames[f].pc = "done" /\ IsResident(graph[frames[f].vertex]) =>
            frames[f].ret = PayloadSum(all_local, Descendants(frames[f].vertex))

\* a call that visited its children in descending order, one of them Remote
C13_Witness ==
    \E f \in TopFrames, g \in DOMAIN frames, h \in DOMAIN frames :
        /\ frames[f].pc = "done"
        /\ frames[g].parent = f /\ frames[h].parent = f
        /\ g < h /\ frames[g].vertex > frames[h].vertex
        /\ h \in RemoteFrames
        /\ frames[f].ret = PayloadSum(all_local, Descendants(frames[f].vertex))

\* the request of call f is on the send stream of its peer, in one piece
OneRequest(f) ==
    LET p == PeerOf(frames[f])
        request == Request(frames[f], f)
    IN  /\ \A u \in UnitsBy(wire, f) : u[1] = p
        /\ \E start \in DOMAIN wire[p] :
              /\ start + Len(request) - 1 <= Len(wire[p])
              /\ \A i \in DOMAIN request : wire[p][start + i - 1] = request[i]
              /\ UnitsBy(wire, f) =
                    {<<p, i>> : i \in start..(start + Len(request) - 1)}

\* C14: a call on a Local or Borrowed vertex runs execute and itself has no
\* RequestID, no entry, no lock and no unit on any stream; a call on a Remote
\* vertex runs remote_execute only, never the loop of execute, registers
\* nothing but its own RequestID and, once it waits for the response, has put
\* exactly its request on the stream of the peer of the vertex.
C14_RoutesByKind ==
    \A f \in DOMAIN frames :
        LET fr == frames[f]
            entries == {id \in Pending : result_multiplexing_channels[id] = f}
        IN  IF IsResident(graph[fr.vertex])
            THEN /\ fr.pc \in {"execute", "loop", "await", "done", "panicked"}
                 /\ fr.id = 0 /\ fr.written = 0 /\ fr.rx = <<>>
                 /\ entries = {}
                 /\ LocksHeld(f) = {}
                 /\ UnitsBy(wire, f) = {}
            ELSE /\ fr.pc \in Range(remote_execute_order) \cup {"done", "panicked"}
                 /\ fr.count = 0 /\ fr.todo = {}
                 /\ \A g \in DOMAIN frames : frames[g].parent # f
                 /\ entries \subseteq {fr.id}
                 /\ fr.pc \notin {"table_write", "insert"} => Registered(f)
                 /\ fr.pc \in {"table_write", "insert", "stream_lock"} =>
                       UnitsBy(wire, f) = {}
                 /\ fr.pc \in {"drop", "recv", "done"} => OneRequest(f)

\* a Borrowed vertex summed in process, its Remote child by one request
C14_Witness ==
    \E f \in DOMAIN frames, g \in RemoteFrames :
        /\ graph[frames[f].vertex].v_type.tag = "Borrowed"
        /\ frames[f].pc = "done"
        /\ frames[g].parent = f /\ frames[g].pc = "done"
        /\ OneRequest(g)
        /\ UnitsBy(wire, f) = {}

====
